---- MODULE Spec2Model ----
(***************************************************************************)
(* vsed: interactive sed over several files (src/src/lib.rs, main.rs).     *)
(* Text is a sequence of characters; a file is a sequence of lines.        *)
(***************************************************************************)
EXTENDS Integers, Sequences, FiniteSets, TLC

\* ---- bounds of the model ----
MaxSpecLen == 6
MaxLines == 2
MaxFileChars == 3
MaxDepth == 2

SeqsUpTo(S, n) == UNION {[1..k -> S] : k \in 0..n}

\* ---- characters ----
\* "U+00E9" stands for one non-ASCII character (two bytes in UTF-8).
SpecAlphabet == {"s", "/", "#", "a", "U+00E9"}
LineAlphabet == {" ", "a", "b"}
Whitespace == {" ", "\n"}

\* str::len counts bytes of the UTF-8 encoding, not characters
Utf8Len(c) == IF c = "U+00E9" THEN 2 ELSE 1

RECURSIVE len(_)
len(s) == IF s = <<>> THEN 0 ELSE Utf8Len(Head(s)) + len(Tail(s))

starts_with(s, p) == Len(s) >= Len(p) /\ SubSeq(s, 1, Len(p)) = p

\* str::matches(char).count()
matches_count(s, c) == Cardinality({i \in 1..Len(s) : s[i] = c})

\* str::split(char): n occurrences of the delimiter give n+1 parts
RECURSIVE split(_, _)
split(s, c) ==
    IF \A i \in 1..Len(s) : s[i] # c THEN <<s>>
    ELSE LET k == CHOOSE i \in 1..Len(s) : s[i] = c /\ \A j \in 1..(i-1) : s[j] # c
         IN <<SubSeq(s, 1, k-1)>> \o split(SubSeq(s, k+1, Len(s)), c)

\* str::trim: drop leading and trailing whitespace
RECURSIVE trim_start(_)
trim_start(s) ==
    IF s # <<>> /\ Head(s) \in Whitespace THEN trim_start(Tail(s)) ELSE s

RECURSIVE trim_end(_)
trim_end(s) ==
    IF s # <<>> /\ s[Len(s)] \in Whitespace THEN trim_end(SubSeq(s, 1, Len(s)-1)) ELSE s

trim(s) == trim_end(trim_start(s))

to_lowercase_char(c) == IF c = "N" THEN "n" ELSE IF c = "Y" THEN "y" ELSE c

\* variant: no case folding
to_lowercase_noop(s) == s

to_lowercase(s) == [i \in 1..Len(s) |-> to_lowercase_char(s[i])]

\* str::contains(&str): literal substring, the empty pattern is in every line
contains(s, p) == \E i \in 1..(Len(s) - Len(p) + 1) : SubSeq(s, i, i + Len(p) - 1) = p

\* str::replace with a non-empty pattern: every non-overlapping match, left to right
RECURSIVE replace_nonempty(_, _, _)
replace_nonempty(s, from, to) ==
    IF Len(s) < Len(from) THEN s
    ELSE IF SubSeq(s, 1, Len(from)) = from
         THEN to \o replace_nonempty(SubSeq(s, Len(from)+1, Len(s)), from, to)
         ELSE <<Head(s)>> \o replace_nonempty(Tail(s), from, to)

\* str::replace with the empty pattern: a match at every character boundary
RECURSIVE replace_empty(_, _)
replace_empty(s, to) ==
    IF s = <<>> THEN to ELSE to \o <<Head(s)>> \o replace_empty(Tail(s), to)

replace(s, from, to) ==
    IF from = <<>> THEN replace_empty(s, to) ELSE replace_nonempty(s, from, to)

\* ---- error values (Box<dyn Error> carrying a message) ----
ErrStart == "Search string must start with 's'"
ErrLength == "Search string must have at least 6 characters"
ErrCount == "Search string must have 3 delimiters, assumed '{c}' as the delimiter and only found {delimeter_count}"
ErrTempFile == "io error: NamedTempFile::new"
ErrRead == "io error: read line"
ErrFlush == "io error: flush"
ErrPersist == "io error: persist"
NoError == "none"

NoSearchValue == [search_pattern |-> <<>>, replacement |-> <<>>, flags |-> <<>>,
                  delimiter |-> "", string |-> <<>>]
NoSearch == [tag |-> "None", value |-> NoSearchValue, err |-> NoError]

\* ---- VimSearch ----
\* variant: only too few delimiters are refused
get_delimeter_at_least(search_string) ==
    IF ~starts_with(search_string, <<"s">>)
    THEN [tag |-> "Err", value |-> "", err |-> ErrStart]
    ELSE IF len(search_string) < 6
    THEN [tag |-> "Err", value |-> "", err |-> ErrLength]
    ELSE IF matches_count(search_string, search_string[2]) < 3
    THEN [tag |-> "Err", value |-> "", err |-> ErrCount]
    ELSE [tag |-> "Ok", value |-> search_string[2], err |-> NoError]

get_delimeter(search_string) ==
    IF ~starts_with(search_string, <<"s">>)
    THEN [tag |-> "Err", value |-> "", err |-> ErrStart]
    ELSE IF len(search_string) < 6
    THEN [tag |-> "Err", value |-> "", err |-> ErrLength]
    ELSE LET assumed_delimiter == search_string[2]
             delimeter_count == matches_count(search_string, assumed_delimiter)
         IN IF delimeter_count # 3
            THEN [tag |-> "Err", value |-> "", err |-> ErrCount]
            ELSE [tag |-> "Ok", value |-> assumed_delimiter, err |-> NoError]

\* tag "Panic": search_parts[k] indexed out of bounds
new(search_string) ==
    LET d == get_delimeter(search_string) IN
    IF d.tag = "Err" THEN [tag |-> "Err", value |-> NoSearchValue, err |-> d.err]
    ELSE LET search_parts == split(search_string, "/") IN
         IF Len(search_parts) < 4
         THEN [tag |-> "Panic", value |-> NoSearchValue, err |-> NoError]
         ELSE [tag |-> "Ok",
               value |-> [search_pattern |-> search_parts[2],
                          replacement |-> search_parts[3],
                          flags |-> search_parts[4],
                          delimiter |-> d.value,
                          string |-> search_string],
               err |-> NoError]

\* ---- inputs of a run ----
Paths == {"f1", "f2", "nofile"}
PathLists == {<<"f1", "f2">>, <<"nofile", "f1">>}

\* NamedTempFile::new picks a fresh name, distinct from every target path
TmpPath(j) == IF j = 1 THEN "tmp1" ELSE IF j = 2 THEN "tmp2" ELSE "tmp0"
AllPaths == Paths \cup {"tmp0", "tmp1", "tmp2"}

\* files of at most n lines and c characters in all
RECURSIVE FilesWithin(_, _)
FilesWithin(n, c) ==
    IF n = 0 THEN {<<>>}
    ELSE {<<>>} \cup UNION { {<<l>> \o rest : rest \in FilesWithin(n - 1, c - Len(l))} :
                                l \in SeqsUpTo(LineAlphabet, c) }

Files == FilesWithin(MaxLines, MaxFileChars)
Absent == [exists |-> FALSE, lines |-> <<>>]
Present(content) == [exists |-> TRUE, lines |-> content]

\* search specifications given to a run over files
RawSpecs == { <<"s", "/", "a", "/", "b", "/", "g">>,
              <<"s", "/", "a", "/", "b", "/">>,
              <<"s", "/", "/", "b", "/", "g", "g">>,
              <<"s", "/", " ", "a", "/", "b", "/">>,
              <<"s", "#", "a", "#", "b", "#">>,
              <<"s", "/", "a", "/", "b">>,
              <<"s", "/", "a", "/", "b", "/", "a", "/">>,
              <<"a", "/", "a", "/", "b", "/">> }

\* what stdin can deliver to read_line: typed text and its newline, or nothing at end of input
Answers == { <<"y", "\n">>, <<" ", "Y", " ", "\n">>, <<"N", "\n">>, <<"n">>,
             <<"q", "\n">>, <<"y", "y", "\n">>, <<"\n">>, <<>> }

VARIABLES
    pattern,        \* options.pattern
    paths,          \* options.paths
    fs,             \* the file system: path -> file
    search,         \* run's VimSearch
    pc,             \* position of the process
    outcome,        \* what run returned: "none", "Ok", "Err", or "Panic"
    error,          \* the error value run returned
    exit_code,      \* exit status of the process, -1 while it runs
    stderr,         \* the message main printed
    job,            \* index in options.paths of the path being processed
    status,         \* per path: "Idle", "Active", "Committed", "Aborted", "Panicked"
    orig,           \* content of the target path when its job started
    pos,            \* lines the iterator of lazy_read_lines has yielded
    line_number,
    line,
    replaced,
    buf,            \* lines held by the BufWriter, not yet flushed
    input,          \* apply_change's input
    read,           \* result of the last stdin read_line: "none", "Ok", "Err"
    result,         \* apply_change's result
    depth,          \* nested calls of apply_change below the first
    decisions,      \* per line pulled: "nomatch", "pending", "accept", "reject"
    shown,          \* the text of the last "Apply? y/n -> {}" printed for the line
    dry_run,        \* options.dry_run
    fs0             \* the file system when the run started

vars == <<pattern, paths, fs, search, pc, outcome, error, exit_code, stderr, job, status,
          orig, pos, line_number, line, replaced, buf, input, read, result, depth, decisions,
          shown, dry_run, fs0>>

runVars == <<pattern, paths, search, dry_run, fs0>>
lineVars == <<pos, line_number, line, replaced, buf, input, read, result, depth, decisions,
              shown>>

InitCommon ==
    /\ search = NoSearch
    /\ pc = "run"
    /\ outcome = "none"
    /\ error = NoError
    /\ exit_code = -1
    /\ stderr = NoError
    /\ job = 0
    /\ status = [j \in 1..Len(paths) |-> "Idle"]
    /\ orig = Absent
    /\ pos = 0
    /\ line_number = 0
    /\ line = <<>>
    /\ replaced = <<>>
    /\ buf = <<>>
    /\ input = <<>>
    /\ read = "none"
    /\ result = FALSE
    /\ depth = 0
    /\ decisions = <<>>
    /\ shown = <<>>
    /\ fs0 = fs

\* --dry-run is tried with the specification of the usage text
DryRuns(p) == IF p = <<"s", "/", "a", "/", "b", "/", "g">> THEN BOOLEAN ELSE {FALSE}

InitFiles ==
    \E content \in Files :
        fs = [p \in AllPaths |->
                IF p = "f1" THEN Present(content)
                ELSE IF p = "f2" THEN Present(<< <<"a">> >>)
                ELSE Absent]

Init ==
    /\ pattern \in RawSpecs
    /\ paths \in PathLists
    /\ dry_run \in DryRuns(pattern)
    /\ InitFiles
    /\ InitCommon

\* the runs with the specification of the usage text, over one file or a missing one
InitUsage ==
    /\ pattern = <<"s", "/", "a", "/", "b", "/", "g">>
    /\ paths \in {<<"f1">>, <<"nofile", "f1">>}
    /\ dry_run = FALSE
    /\ InitFiles
    /\ InitCommon

\* the parser alone: any bounded spec string, and a glob that matched no file
InitParse ==
    /\ pattern \in SeqsUpTo(SpecAlphabet, MaxSpecLen)
    /\ paths = <<>>
    /\ dry_run = FALSE
    /\ fs = [p \in AllPaths |-> Absent]
    /\ InitCommon

\* ---- helpers of the file job ----
path == paths[job]
tmp_file_path == TmpPath(job)

\* variant: the writer appends to the target itself
writer_target_in_place(target, tmp) == target

\* BufWriter::new(&tmp_file): where flushed lines go
writer_target(target, tmp) == tmp

\* the path handed to tmp_file.persist
persist_target(target, tmp) == tmp

\* variant: lines pass untrimmed
lazy_read_lines_untrimmed(content) == content

NotBlank(l) == l # <<>>

\* variant: blank lines are skipped
lazy_read_lines_skip_blank(content) ==
    SelectSeq([i \in 1..Len(content) |-> trim(content[i])], NotBlank)

\* the iterator of lazy_read_lines: every line trimmed
lazy_read_lines(content) == [i \in 1..Len(content) |-> trim(content[i])]

\* str::replacen(from, to, 1): the first match only
replace_first(s, from, to) ==
    IF ~contains(s, from) THEN s
    ELSE LET k == CHOOSE i \in 1..(Len(s) - Len(from) + 1) :
                     /\ SubSeq(s, i, i + Len(from) - 1) = from
                     /\ \A j \in 1..(i-1) : SubSeq(s, j, j + Len(from) - 1) # from
         IN SubSeq(s, 1, k-1) \o to \o SubSeq(s, k + Len(from), Len(s))

\* variant: only the first occurrence is replaced
candidate_first(l, s) == replace_first(l, s.search_pattern, s.replacement)

\* variant: every occurrence with the flag g, the first one without it
candidate_by_flags(l, s) ==
    IF \E k \in 1..Len(s.flags) : s.flags[k] = "g"
    THEN replace(l, s.search_pattern, s.replacement)
    ELSE replace_first(l, s.search_pattern, s.replacement)

\* the candidate shown for a matching line
candidate(l, s) == replace(l, s.search_pattern, s.replacement)

\* variant: the candidate is written whatever the answer
decided_always_replaced(r, l, rep) == rep

\* variant: the line is written whatever the answer
decided_never_replaced(r, l, rep) == l

\* the text written for a matching line once apply_change returned
decided(r, l, rep) == IF r THEN rep ELSE l

\* variant: the buffered lines are dropped, not written
flush_nothing(file_lines, buffered) == file_lines

\* BufWriter::flush: the buffered lines reach the file
flush(file_lines, buffered) == file_lines \o buffered

\* fs::rename
rename(f, from, to) ==
    IF from = to THEN f ELSE [f EXCEPT ![to] = f[from], ![from] = Absent]

\* variant: the temporary file is left behind
drop_tmp_file_kept(f, tmp) == f

\* leaving read_file early drops the writer and the NamedTempFile, which removes the file
drop_tmp_file(f, tmp) == [f EXCEPT ![tmp] = Absent]

\* the locals of read_file and apply_change, gone once read_file is left
NoLocals ==
    /\ pos' = 0
    /\ line_number' = 0
    /\ line' = <<>>
    /\ replaced' = <<>>
    /\ buf' = <<>>
    /\ input' = <<>>
    /\ read' = "none"
    /\ result' = FALSE
    /\ depth' = 0
    /\ shown' = <<>>

\* variant: the error is noted and the loop over the paths goes on
ReturnErr_and_continue(e) ==
    /\ outcome' = "Err"
    /\ error' = e
    /\ pc' = "for"
    /\ UNCHANGED <<exit_code, stderr>>

\* an Err travels up through the ? operators to main
ReturnErr(e) ==
    /\ outcome' = "Err"
    /\ error' = e
    /\ pc' = "returned"
    /\ UNCHANGED <<exit_code, stderr>>

\* a panic unwinds and ends the process with status 101
Panic ==
    /\ outcome' = "Panic"
    /\ pc' = "exited"
    /\ exit_code' = 101
    /\ UNCHANGED <<error, stderr>>

\* ---- run ----
\* variant: the temporary file of the first path is made before the specification is parsed
run_new_after_tmp_file ==
    /\ pc = "run"
    /\ LET r == new(pattern) IN
         \/ /\ r.tag = "Ok"
            /\ search' = r
            /\ pc' = "for"
            /\ fs' = fs
            /\ UNCHANGED <<outcome, error, exit_code, stderr>>
         \/ /\ r.tag = "Err"
            /\ search' = search
            /\ fs' = IF paths # <<>> THEN [fs EXCEPT ![TmpPath(1)] = Present(<<>>)] ELSE fs
            /\ ReturnErr(r.err)
         \/ /\ r.tag = "Panic"
            /\ search' = search
            /\ fs' = fs
            /\ Panic
    /\ UNCHANGED <<pattern, paths, dry_run, fs0, job, status, orig>>
    /\ UNCHANGED lineVars

\* let search = VimSearch::new(options.pattern)?, before the loop over the paths
run_new ==
    /\ pc = "run"
    /\ LET r == new(pattern) IN
         \/ /\ r.tag = "Ok"
            /\ search' = r
            /\ pc' = "for"
            /\ UNCHANGED <<outcome, error, exit_code, stderr>>
         \/ /\ r.tag = "Err"
            /\ search' = search
            /\ ReturnErr(r.err)
         \/ /\ r.tag = "Panic"
            /\ search' = search
            /\ Panic
    /\ UNCHANGED <<pattern, paths, dry_run, fs0, fs, job, status, orig>>
    /\ UNCHANGED lineVars

\* for path in options.paths: enter read_file, NamedTempFile::new()?
read_file_start ==
    /\ pc = "for"
    /\ job < Len(paths)
    /\ job' = job + 1
    /\ orig' = fs[paths[job + 1]]
    /\ NoLocals
    /\ decisions' = <<>>
    /\ \E ok \in BOOLEAN :
         IF ok
         THEN /\ fs' = [fs EXCEPT ![TmpPath(job + 1)] = Present(<<>>)]
              /\ status' = [status EXCEPT ![job + 1] = "Active"]
              /\ pc' = "open"
              /\ UNCHANGED <<outcome, error, exit_code, stderr>>
         ELSE /\ fs' = fs
              /\ status' = [status EXCEPT ![job + 1] = "Aborted"]
              /\ ReturnErr(ErrTempFile)
    /\ UNCHANGED runVars

\* lazy_read_lines(&path)?: open(path).unwrap()
read_file_open ==
    /\ pc = "open"
    /\ IF fs[path].exists
       THEN /\ pc' = "scan"
            /\ UNCHANGED <<fs, status, outcome, error, exit_code, stderr>>
       ELSE /\ fs' = drop_tmp_file(fs, tmp_file_path)
            /\ status' = [status EXCEPT ![job] = "Panicked"]
            /\ Panic
    /\ UNCHANGED <<job, orig>>
    /\ UNCHANGED runVars
    /\ UNCHANGED lineVars

\* the iterator yields Ok(line): a matching line waits in apply_change, any other is written
read_file_line ==
    /\ pc = "scan"
    /\ pos < Len(lazy_read_lines(fs[path].lines))
    /\ LET l == lazy_read_lines(fs[path].lines)[pos + 1] IN
         /\ pos' = pos + 1
         /\ line' = l
         /\ line_number' = line_number + 1
         /\ IF contains(l, search.value.search_pattern)
            THEN /\ replaced' = candidate(l, search.value)
                 /\ shown' = candidate(l, search.value)
                 /\ decisions' = Append(decisions, "pending")
                 /\ buf' = buf
                 /\ pc' = "prompt"
            ELSE /\ replaced' = replaced
                 /\ shown' = shown
                 /\ decisions' = Append(decisions, "nomatch")
                 /\ buf' = Append(buf, l)
                 /\ pc' = "flush"
    /\ UNCHANGED <<fs, job, status, orig, input, read, result, depth,
                   outcome, error, exit_code, stderr>>
    /\ UNCHANGED runVars

\* the iterator yields Err: line? returns it
read_file_read_error ==
    /\ pc = "scan"
    /\ fs' = drop_tmp_file(fs, tmp_file_path)
    /\ status' = [status EXCEPT ![job] = "Aborted"]
    /\ ReturnErr(ErrRead)
    /\ NoLocals
    /\ UNCHANGED <<job, orig, decisions>>
    /\ UNCHANGED runVars

\* the iterator is exhausted: the block ends and the writer is dropped
\* variant: the end of the file is never signalled
read_file_eof_never ==
    /\ pc = "scan"
    /\ FALSE
    /\ UNCHANGED vars

\* the iterator yields None: the loop is left
read_file_eof ==
    /\ pc = "scan"
    /\ pos = Len(lazy_read_lines(fs[path].lines))
    /\ pc' = "persist"
    /\ UNCHANGED <<fs, job, status, orig, outcome, error, exit_code, stderr>>
    /\ UNCHANGED runVars
    /\ UNCHANGED lineVars

\* apply_change reads an answer: y or n returns, anything else calls apply_change again
apply_change ==
    /\ pc = "prompt"
    /\ \E answer \in Answers :
         LET a == to_lowercase(trim(answer)) IN
         /\ input' = answer
         /\ read' = "Ok"
         /\ IF a = <<"y">> \/ a = <<"n">>
            THEN /\ result' = (a = <<"y">>)
                 /\ buf' = Append(buf, decided(a = <<"y">>, line, replaced))
                 /\ decisions' = [decisions EXCEPT ![Len(decisions)] =
                                     IF a = <<"y">> THEN "accept" ELSE "reject"]
                 /\ depth' = depth
                 /\ pc' = "flush"
            ELSE /\ depth < MaxDepth
                 /\ depth' = depth + 1
                 /\ pc' = "prompt"
                 /\ UNCHANGED <<result, buf, decisions>>
    /\ UNCHANGED <<fs, job, status, orig, pos, line_number, line, replaced, shown,
                   outcome, error, exit_code, stderr>>
    /\ UNCHANGED runVars

\* read_line(..).unwrap() on a failed read of stdin
apply_change_read_failed ==
    /\ pc = "prompt"
    /\ read' = "Err"
    /\ fs' = drop_tmp_file(fs, tmp_file_path)
    /\ status' = [status EXCEPT ![job] = "Panicked"]
    /\ Panic
    /\ pos' = 0
    /\ line_number' = 0
    /\ line' = <<>>
    /\ replaced' = <<>>
    /\ buf' = <<>>
    /\ input' = <<>>
    /\ result' = FALSE
    /\ depth' = 0
    /\ shown' = <<>>
    /\ UNCHANGED <<job, orig, decisions>>
    /\ UNCHANGED runVars

\* writer.flush()?
read_file_flush ==
    /\ pc = "flush"
    /\ \E ok \in BOOLEAN :
         IF ok
         THEN /\ fs' = [fs EXCEPT ![writer_target(path, tmp_file_path)] =
                           Present(flush(@.lines, buf))]
              /\ buf' = <<>>
              /\ shown' = <<>>
              /\ line' = <<>>
              /\ replaced' = <<>>
              /\ input' = <<>>
              /\ read' = "none"
              /\ result' = FALSE
              /\ depth' = 0
              /\ pc' = "scan"
              /\ UNCHANGED <<pos, line_number, status, outcome, error, exit_code, stderr>>
         ELSE /\ fs' = drop_tmp_file(fs, tmp_file_path)
              /\ status' = [status EXCEPT ![job] = "Aborted"]
              /\ ReturnErr(ErrFlush)
              /\ NoLocals
    /\ UNCHANGED <<job, orig, decisions>>
    /\ UNCHANGED runVars

\* tmp_file.persist(tmp_file_path.clone())?
read_file_persist ==
    /\ pc = "persist"
    /\ \E ok \in BOOLEAN :
         IF ok
         THEN /\ fs' = rename(fs, tmp_file_path, persist_target(path, tmp_file_path))
              /\ status' = [status EXCEPT ![job] = "Committed"]
              /\ pc' = "for"
              /\ UNCHANGED <<outcome, error, exit_code, stderr>>
         ELSE /\ fs' = fs
              /\ status' = [status EXCEPT ![job] = "Aborted"]
              /\ ReturnErr(ErrPersist)
    /\ NoLocals
    /\ UNCHANGED <<job, orig, decisions>>
    /\ UNCHANGED runVars

\* the loop over options.paths is done: Ok(())
run_ok ==
    /\ pc = "for"
    /\ job = Len(paths)
    /\ outcome' = "Ok"
    /\ pc' = "returned"
    /\ UNCHANGED <<error, exit_code, stderr, fs, job, status, orig>>
    /\ UNCHANGED runVars
    /\ UNCHANGED lineVars

\* main: print the error and exit(1), or return
main ==
    /\ pc = "returned"
    /\ pc' = "exited"
    /\ IF outcome = "Err"
       THEN /\ stderr' = error
            /\ exit_code' = 1
       ELSE /\ stderr' = stderr
            /\ exit_code' = 0
    /\ UNCHANGED <<outcome, error, fs, job, status, orig>>
    /\ UNCHANGED runVars
    /\ UNCHANGED lineVars

Next ==
    \/ run_new
    \/ read_file_start
    \/ read_file_open
    \/ read_file_line
    \/ read_file_read_error
    \/ read_file_eof
    \/ apply_change
    \/ apply_change_read_failed
    \/ read_file_flush
    \/ read_file_persist
    \/ run_ok
    \/ main

Spec == Init /\ [][Next]_vars

NextParse == run_new \/ run_ok \/ main

ParseSpec == InitParse /\ [][NextParse]_vars

\* the steps the process takes by itself: all but the wait for an answer on stdin
\* and the failure of a read of the file
Progress ==
    \/ run_new
    \/ read_file_start
    \/ read_file_open
    \/ read_file_line
    \/ read_file_eof
    \/ read_file_flush
    \/ read_file_persist
    \/ run_ok
    \/ main

\* the process keeps running; when an answer arrives on stdin is up to the user
LiveSpec == InitUsage /\ [][Next]_vars /\ WF_vars(Progress)

\* ---- properties ----
Pat == search.value.search_pattern
Rep == search.value.replacement

\* lines written for the current job: flushed to the temporary file, then held by the writer
Staged == IF job >= 1 /\ fs[TmpPath(job)].exists THEN fs[TmpPath(job)].lines \o buf ELSE <<>>

\* indices of the lines of the current job that are pulled and written
Written == {i \in 1..Len(Staged) : i <= Len(decisions) /\ i <= Len(orig.lines)}

Pulled == {i \in 1..Len(decisions) : i <= Len(orig.lines)}

JobCommitted == job >= 1 /\ pc \in {"for", "returned", "exited"} /\ status[job] = "Committed"

RejectAll == \A i \in 1..Len(decisions) : decisions[i] \in {"nomatch", "reject"}

NonWhitespace(c) == c \notin Whitespace

\* C1: once a job is Committed, the content at its original path is the staged
\* sequence of decided lines (the candidate of accepted lines, the line itself otherwise);
\* stated for the jobs with an accepted match
C1_CommitPersistsOverTarget ==
    (JobCommitted /\ \E i \in 1..Len(decisions) : decisions[i] = "accept") =>
        fs[paths[job]] =
            Present([i \in 1..Len(decisions) |->
                        IF decisions[i] = "accept"
                        THEN replace(trim(orig.lines[i]), Pat, Rep)
                        ELSE trim(orig.lines[i])])

\* C2 as stated: an accepted line containing the pattern is staged with only the
\* first occurrence of the pattern replaced
C2_FirstOccurrenceOnly ==
    \A i \in Written :
        (contains(orig.lines[i], Pat) /\ decisions[i] = "accept")
            => Staged[i] = replace_first(orig.lines[i], Pat, Rep)

\* C2 amended: an accepted line is staged as its trimmed text with every
\* non-overlapping occurrence of the pattern replaced, left to right
C2_AllOccurrencesReplaced ==
    /\ \A i \in Pulled :
          decisions[i] = "accept" => contains(trim(orig.lines[i]), Pat)
    /\ \A i \in Written :
          (contains(trim(orig.lines[i]), Pat) /\ decisions[i] = "accept")
              => Staged[i] = replace(trim(orig.lines[i]), Pat, Rep)

C2_Witness ==
    \E i \in Written :
        /\ orig.lines[i] = <<"a", "a">>
        /\ Pat = <<"a">>
        /\ decisions[i] = "accept"
        /\ Staged[i] = <<"b", "b">>

\* C3: until the job is Committed, and when it ended Aborted, the content at the
\* original path is what it was when the job started
C3_OriginalIntactUntilCommit ==
    (job >= 1 /\ status[job] # "Committed") => fs[paths[job]] = orig

C3_Witness ==
    /\ job >= 1
    /\ status[job] = "Aborted"
    /\ error = ErrRead
    /\ \E i \in 1..Len(decisions) : decisions[i] = "accept"
    /\ fs[paths[job]] = orig
    /\ orig.exists

\* C4 as stated: a line that does not contain the pattern is not prompted for and is
\* staged exactly as it stands in the file
C4_UnmatchedLineExact ==
    /\ \A i \in Pulled :
          ~contains(orig.lines[i], Pat) => decisions[i] = "nomatch"
    /\ \A i \in Written :
          ~contains(orig.lines[i], Pat) => Staged[i] = orig.lines[i]

\* C4 amended: a line whose trimmed text does not contain the pattern is not prompted
\* for and is staged as its trimmed text
C4_UnmatchedLineTrimmed ==
    /\ \A i \in Pulled :
          ~contains(trim(orig.lines[i]), Pat) => decisions[i] = "nomatch"
    /\ \A i \in Written :
          ~contains(trim(orig.lines[i]), Pat) => Staged[i] = trim(orig.lines[i])

C4_Witness ==
    \E i \in Written :
        /\ orig.lines[i] = <<" ", "b">>
        /\ Pat = <<"a">>
        /\ decisions[i] = "nomatch"
        /\ Staged[i] = <<"b">>

\* C5 as stated: a rejected line is staged as the original input line, and a run of
\* rejections only leaves a file identical to the original
C5_RejectKeepsInputLine ==
    /\ \A i \in Written :
          decisions[i] = "reject" => Staged[i] = orig.lines[i]
    /\ (JobCommitted /\ RejectAll) => fs[paths[job]] = orig

\* C5 amended: a rejected line is staged as the trimmed input line; a run of
\* rejections only stages the trimmed lines of the file, which is the file's content
\* when no line has leading or trailing whitespace, and it leaves the original as it was
C5_RejectKeepsTrimmedLine ==
    /\ \A i \in Written :
          decisions[i] = "reject" => Staged[i] = trim(orig.lines[i])
    /\ (JobCommitted /\ RejectAll) =>
          /\ fs[paths[job]] = orig
          /\ fs[TmpPath(job)] = Present([i \in 1..Len(orig.lines) |-> trim(orig.lines[i])])
          /\ (\A i \in 1..Len(orig.lines) : trim(orig.lines[i]) = orig.lines[i])
                => fs[TmpPath(job)] = orig

C5_Witness ==
    /\ JobCommitted
    /\ RejectAll
    /\ orig.lines = << <<" ", "a">>, <<"a">> >>
    /\ decisions = <<"reject", "reject">>
    /\ fs[TmpPath(job)].lines = << <<"a">>, <<"a">> >>

\* ---- properties of the parser (ParseSpec) ----
Parsed == pc # "run"

RECURSIVE join(_, _)
join(parts, d) ==
    IF Len(parts) = 0 THEN <<>>
    ELSE IF Len(parts) = 1 THEN parts[1]
    ELSE parts[1] \o <<d>> \o join(Tail(parts), d)

\* C6: a spec that starts with s, has at least 6 characters and holds its second
\* character d exactly 3 times parses to segments 1, 2, 3 of its split by d, and
\* joining s, pattern, replacement and flags with d gives the spec back
C6_AnyDelimiterRoundTrip ==
    (/\ Parsed
     /\ Len(pattern) >= 6
     /\ pattern[1] = "s"
     /\ matches_count(pattern, pattern[2]) = 3)
    => LET d == pattern[2]
           parts == split(pattern, d)
       IN /\ search.tag = "Ok"
          /\ search.value.search_pattern = parts[2]
          /\ search.value.replacement = parts[3]
          /\ search.value.flags = parts[4]
          /\ join(<< <<"s">>, search.value.search_pattern,
                     search.value.replacement, search.value.flags >>, d) = pattern

\* C7: a spec whose inferred delimiter (the character after the leading s) occurs
\* a number of times other than 3 is refused with an error and gives no VimSearch
C7_WrongDelimiterCountRejected ==
    (/\ Parsed
     /\ Len(pattern) >= 2
     /\ pattern[1] = "s"
     /\ matches_count(pattern, pattern[2]) # 3)
    => /\ outcome = "Err"
       /\ error \in {ErrLength, ErrCount}
       /\ search = NoSearch

C7_Witness ==
    /\ Parsed
    /\ pattern = <<"s", "/", "a", "/", "/", "/">>
    /\ outcome = "Err"
    /\ error = ErrCount
    /\ search = NoSearch

\* C8: the checks are ordered: no leading s gives the start error; otherwise fewer
\* than 6 characters give the length error whatever the delimiter count; the
\* delimiter-count error is given only to specs that pass both
C8_ChecksOrdered ==
    Parsed =>
        /\ (Len(pattern) = 0 \/ pattern[1] # "s") => (outcome = "Err" /\ error = ErrStart)
        /\ (Len(pattern) >= 1 /\ pattern[1] = "s" /\ Len(pattern) < 6)
              => (outcome = "Err" /\ error = ErrLength)
        /\ error = ErrCount => (Len(pattern) >= 6 /\ pattern[1] = "s")

\* ---- properties of the prompt and of the exit status (Spec) ----
Yes(answer) == SelectSeq(answer, NonWhitespace) \in {<<"y">>, <<"Y">>}
No(answer) == SelectSeq(answer, NonWhitespace) \in {<<"n">>, <<"N">>}

\* C9: at the prompt for a matching line, an answer that is y after trimming and
\* case folding writes the candidate, one that is n writes the line, and any other
\* answer writes nothing, pulls no line, ends nothing and asks again with the same
\* candidate
C9_PromptUntilValidAnswer ==
    [][(pc = "prompt" /\ read' = "Ok") =>
          /\ Yes(input') =>
                /\ pc' = "flush" /\ result' = TRUE
                /\ buf' = Append(buf, replaced)
                /\ decisions' = [decisions EXCEPT ![Len(decisions)] = "accept"]
          /\ No(input') =>
                /\ pc' = "flush" /\ result' = FALSE
                /\ buf' = Append(buf, line)
                /\ decisions' = [decisions EXCEPT ![Len(decisions)] = "reject"]
          /\ (~Yes(input') /\ ~No(input')) =>
                /\ pc' = "prompt"
                /\ depth' = depth + 1
                /\ UNCHANGED <<fs, buf, pos, line_number, line, replaced, decisions,
                               job, status, outcome, error, exit_code, stderr>>
          /\ UNCHANGED <<fs, pos, line, replaced>>
      ]_vars

C9_Witness ==
    /\ pc = "flush"
    /\ depth = MaxDepth
    /\ input = <<"N", "\n">>
    /\ result = FALSE
    /\ buf = <<line>>
    /\ line # replaced

\* C10: every failure of a run is returned as an error, printed by main, with exit
\* status 1; nothing ends the process abnormally; a run without failure exits with 0
\* (stated for the runs whose search specification new() returns from)
C10_FailuresSurfaced ==
    (pc = "exited" /\ new(pattern).tag # "Panic") =>
        /\ outcome \in {"Ok", "Err"}
        /\ exit_code = (IF outcome = "Err" THEN 1 ELSE 0)
        /\ outcome = "Err" => stderr = error

\* positions of read_file and apply_change: a file job is running
InJob == pc \in {"open", "scan", "prompt", "flush", "persist"}

Failed(j) == status[j] \in {"Aborted", "Panicked"}

\* the file job j has not begun: no temporary file of it, its file as at the start
NotStarted(j) ==
    /\ status[j] = "Idle"
    /\ ~fs[TmpPath(j)].exists
    /\ fs[paths[j]] = fs0[paths[j]]

\* C11: the file jobs run one at a time in the order of the path list: a job has
\* begun only when every earlier job is Committed, the job that is running is the
\* only active one, and once a job has failed the run is over and every later job
\* has not begun (no temporary file, no prompt, its file unmodified).
C11_JobsInOrderStopOnFailure ==
    /\ \A j \in 1..Len(paths) :
          /\ status[j] # "Idle" => /\ j <= job
                                   /\ \A i \in 1..(j - 1) : status[i] = "Committed"
          /\ status[j] = "Active" => j = job /\ InJob
          /\ Failed(j) => /\ pc \in {"returned", "exited"}
                          /\ outcome \in {"Err", "Panic"}
                          /\ \A i \in (j + 1)..Len(paths) : NotStarted(i)
    /\ \A i \in (job + 1)..Len(paths) : NotStarted(i)
    /\ InJob => status[job] = "Active"

\* the first of two jobs met a read error; the process ended with the second not begun
C11_Witness ==
    /\ pc = "exited"
    /\ paths = <<"f1", "f2">>
    /\ fs0["f2"].exists
    /\ status = <<"Aborted", "Idle">>
    /\ error = ErrRead
    /\ exit_code = 1

ParseErrors == {ErrStart, ErrLength, ErrCount}

\* C12: a malformed search specification is reported before any file job starts:
\* while the specification is unparsed, and in every state of a run that returned a
\* parse error, no job has begun (no file opened, nothing prompted), no temporary
\* file exists and every file is as it was at the start; a job begins only with a
\* parsed specification.
C12_ParseErrorBeforeAnyJob ==
    /\ (pc = "run" \/ (outcome = "Err" /\ error \in ParseErrors)) =>
          /\ job = 0
          /\ \A j \in 1..Len(paths) : NotStarted(j)
          /\ fs = fs0
          /\ decisions = <<>>
          /\ shown = <<>>
    /\ (outcome = "Err" /\ error \in ParseErrors) => /\ pc \in {"returned", "exited"}
                                                      /\ search = NoSearch
    /\ job >= 1 => search.tag = "Ok"

\* a specification with four delimiters and two existing files: the count error is
\* printed, the exit status is 1
C12_Witness ==
    /\ pc = "exited"
    /\ paths = <<"f1", "f2">>
    /\ fs0["f1"].lines # <<>>
    /\ error = ErrCount
    /\ stderr = ErrCount
    /\ exit_code = 1

\* the pattern and the replacement as they stand in the specification text
RawPat == split(pattern, "/")[2]
RawRep == split(pattern, "/")[3]

\* the output line of line i of the current job, from the text of the file, the
\* pattern, the replacement and the decision
Expected(i) ==
    IF decisions[i] = "accept"
    THEN replace(trim(orig.lines[i]), RawPat, RawRep)
    ELSE trim(orig.lines[i])

CountMessage(c, n) ==
    "Search string must have 3 delimiters, assumed '" \o c
        \o "' as the delimiter and only found " \o ToString(n)

\* C14: when the delimiter count check fails, the error names the assumed delimiter
\* (the second character of the specification) and the number of its occurrences found.
C14_CountErrorNamesDelimiterAndCount ==
    (/\ Parsed
     /\ starts_with(pattern, <<"s">>)
     /\ len(pattern) >= 6
     /\ matches_count(pattern, pattern[2]) # 3)
    => /\ outcome = "Err"
       /\ error = CountMessage(pattern[2], matches_count(pattern, pattern[2]))

\* the lines of the current job that have reached the temporary file
Durable == fs[TmpPath(job)].lines

\* C15: whenever the next line is about to be pulled after k lines, the temporary
\* file holds exactly the k decided output lines of lines 1..k and the writer holds
\* nothing; at any other point of the job at most the one line in flight is missing
\* from the file.
C15_PerLineFlush ==
    /\ pc = "scan" =>
          /\ fs[TmpPath(job)].exists
          /\ buf = <<>>
          /\ Len(decisions) = pos
          /\ Durable = [i \in 1..pos |-> Expected(i)]
    /\ pc \in {"prompt", "flush", "persist"} =>
          /\ fs[TmpPath(job)].exists
          /\ Len(buf) <= 1
          /\ Len(Durable) \in {pos - 1, pos}
          /\ pc = "persist" => Len(Durable) = pos /\ buf = <<>>
          /\ \A i \in 1..Len(Durable) : Durable[i] = Expected(i)

\* one accepted line is in the file and the second line is about to be pulled
C15_Witness ==
    /\ pc = "scan"
    /\ pos = 1
    /\ Len(orig.lines) = 2
    /\ decisions = <<"accept">>
    /\ Durable = << <<"b">> >>
    /\ buf = <<>>

\* read_file has returned for the current job
Left == pc \in {"for", "returned", "exited"}

JobEnded == job >= 1 /\ Left /\ status[job] \in {"Committed", "Aborted"}

\* every prompt gets a valid answer in the end
EveryPromptAnswered == (pc = "prompt") ~> (pc = "flush")

\* C16: if every prompt eventually receives a valid answer, a job that is scanning
\* or waiting at a prompt eventually ends Committed or Aborted; and whatever the
\* answers, every position of a job but the prompt is left, towards the prompt or
\* the end of the job, so the prompt is the only place where a job can stay forever.
C16_JobTerminatesUnlessPromptWaits ==
    /\ EveryPromptAnswered =>
          ((pc \in {"scan", "prompt", "flush", "persist"}) ~> JobEnded)
    /\ (pc \in {"open", "scan", "flush", "persist"}) ~> (pc = "prompt" \/ Left)

\* a job that was prompted twice for one line and got its answer is Committed
C16_Witness ==
    /\ JobCommitted
    /\ Len(orig.lines) = 2
    /\ \E i \in 1..Len(decisions) : decisions[i] = "accept"
    /\ \E i \in 1..Len(decisions) : decisions[i] = "reject"

\* C17: when a job ends Aborted by a read error in the scan or by a failed write or
\* flush to the temporary file, then once read_file has returned the error no
\* temporary file of that job remains and its partial content is at no path: the
\* file of the job and every other file are as they were.
C17_AbortDiscardsStaging ==
    (/\ job >= 1
     /\ status[job] = "Aborted"
     /\ error \in {ErrRead, ErrFlush})
    => /\ Left
       /\ ~fs[TmpPath(job)].exists
       /\ fs[paths[job]] = orig
       /\ \A p \in Paths : fs[p] = fs0[p]
       /\ \A j \in (job + 1)..Len(paths) : ~fs[TmpPath(j)].exists

\* the flush of the second line failed after the first, accepted, line had reached
\* the temporary file
C17_Witness ==
    /\ job >= 1
    /\ status[job] = "Aborted"
    /\ error = ErrFlush
    /\ pc = "returned"
    /\ Len(decisions) = 2
    /\ decisions[1] = "accept"
    /\ ~fs[TmpPath(job)].exists

\* C18: the staged output keeps the count and the order of the lines: after k lines
\* are pulled and decided it holds k lines, the i-th being the i-th line of the file
\* (trimmed) or its replacement, whatever the answers were; and the line number
\* counts every line pulled, so the line echoed or prompted for with number n is
\* the n-th line of the file.
C18_CountAndOrderPreserved ==
    (job >= 1 /\ pc \in {"scan", "prompt", "flush", "persist"}) =>
        /\ line_number = pos
        /\ Len(decisions) = pos
        /\ pos <= Len(orig.lines)
        /\ Len(Staged) = IF pc = "prompt" THEN pos - 1 ELSE pos
        /\ pc = "persist" => Len(Staged) = Len(orig.lines)
        /\ \A i \in 1..Len(Staged) :
              Staged[i] \in {trim(orig.lines[i]), replace(trim(orig.lines[i]), Pat, Rep)}
        /\ pc \in {"prompt", "flush"} => line = trim(orig.lines[line_number])

\* the second line was rejected after an invalid answer, the first did not match
C18_Witness ==
    /\ pc = "flush"
    /\ line_number = 2
    /\ decisions = <<"nomatch", "reject">>
    /\ depth >= 1
    /\ Len(Staged) = 2

\* a step from the prompt: accepted, the text shown is appended; prompted again,
\* the text shown is the same and nothing is written
PromptStep ==
    /\ (pc = "prompt" /\ pc' = "flush" /\ result') =>
          (buf' = Append(buf, shown) /\ shown' = shown)
    /\ (pc = "prompt" /\ pc' = "prompt") =>
          (shown' = shown /\ buf' = buf)

\* C19: what is shown is what is written: when a prompt is accepted, the text
\* written to the staging buffer is the text the prompt showed, and a re-prompt
\* after an invalid answer shows the same text again.
C19_ShownIsWritten == [][PromptStep]_vars

\* accepted after two invalid answers: the candidate shown is in the writer
C19_Witness ==
    /\ pc = "flush"
    /\ result
    /\ depth = 2
    /\ shown # line
    /\ buf = <<shown>>

====
